---- MODULE Spec2Model ----
(***************************************************************************)
(* Model of streamlit.py: a Streamlit chat front-end for the Gemini API.   *)
(* The script is re-executed top to bottom on every user event; only       *)
(* st.session_state and the widget values survive between executions.      *)
(*                                                                         *)
(* Text is modelled as a sequence of tokens (one-character strings for     *)
(* error texts, prompts and chunks, one token for each fixed sentence);    *)
(* concatenation is \o, "x in s" is Contains, s.lower() is Lower.          *)
(***************************************************************************)
EXTENDS Integers, Sequences, FiniteSets, TLC

VARIABLES
    session_state,      \* st.session_state: a function on the keys present
    selection,          \* value held by the "Choose Model" selectbox widget
    catalog,            \* what genai.list_models() answers in this session
    available_options,  \* script global, also the options on screen
    halted,             \* the last execution ended in st.stop()
    pc,                 \* position of the running execution
    prompt,             \* value of st.chat_input in the running execution
    full_response,      \* script global full_response
    message_placeholder,\* content of the st.empty() placeholder
    error_box,          \* content of the last st.error() of the execution
    attempt_number,     \* tenacity's retry_state.attempt_number
    exc,                \* text of the exception in flight
    response,           \* chunks the returned stream has not yielded yet
    received,           \* history: chunks the stream yielded in this turn
    trace,              \* history: remote calls, failures and sleeps of this turn
    turns,              \* history: the completed turns since the last clear
    created,            \* history: every handle start_chat returned
    cleared_at,         \* history: Len(created) at the last clear
    list_calls,         \* history: genai.list_models() calls (saturating)
    config,             \* history: how the last configuration block went
    nprompts,           \* prompts submitted in the session
    nclears             \* clear clicks in the session

vars == << session_state, selection, catalog, available_options, halted, pc,
           prompt, full_response, message_placeholder, error_box,
           attempt_number, exc, response, received, trace, turns, created,
           cleared_at, list_calls, config, nprompts, nclears >>

----------------------------------------------------------------------------
(* Bounds of the model *)

MaxPrompts == 2
MaxClears == 2

(* Program constants *)

StopAfterAttempt == 3
WaitMultiplier == 1
WaitMin == 4
WaitMax == 10
QuotaDelay == 5

NONE == << "none" >>
\* the selectbox before its first rendering
NO_SELECTION == "(no selection)"

----------------------------------------------------------------------------
(* Text helpers *)

Max2(a, b) == IF a >= b THEN a ELSE b
Min2(a, b) == IF a <= b THEN a ELSE b

RECURSIVE Pow2(_)
Pow2(n) == IF n <= 0 THEN 1 ELSE 2 * Pow2(n - 1)

LowerChar(c) ==
    CASE c = "Q" -> "q"
      [] c = "U" -> "u"
      [] c = "O" -> "o"
      [] c = "T" -> "t"
      [] c = "A" -> "a"
      [] OTHER -> c

Lower(s) == [i \in 1..Len(s) |-> LowerChar(s[i])]

Contains(sub, s) ==
    \E i \in 0..(Len(s) - Len(sub)) :
        \A j \in 1..Len(sub) : s[i + j] = sub[j]

RECURSIVE Flatten(_)
Flatten(ss) == IF ss = << >> THEN << >> ELSE Head(ss) \o Flatten(Tail(ss))

QUOTA == << "q", "u", "o", "t", "a" >>
S429 == << "4", "2", "9" >>
CURSOR == << "_cursor_" >>
FALLBACK == << "Sorry, I couldn't process your request. Please try again." >>
RATE_LIMIT_NOTICE ==
    << "Rate limit exceeded. Please try again later or switch to a different model." >>
ERROR_PREFIX == << "Error: " >>

----------------------------------------------------------------------------
(* Inputs: what the user and the remote service can supply *)

Prompts == { << "h", "i" >>, << "y", "o" >> }

\* str(e) of the exceptions the SDK can raise
E429 == << "e", "4", "2", "9" >>
EQuota == << "Q", "u", "o", "t", "a" >>
ENear == << "q", "u", "o", "t", "4", "2", "a", "9" >>
ErrTexts == { E429, EQuota, ENear }
\* str(e) of what the iteration of a stream can raise
StreamErrTexts == { E429, ENear }

\* the chunk texts a returned stream can yield, in stream order
Streams == { << << "b" >> >>, << << "a" >>, << "b" >> >> }

\* the answers of genai.list_models(): name, and whether 'generateContent'
\* is among supported_generation_methods
Entry(n, g) == [name |-> n, generateContent |-> g]
Catalogs ==
    { << Entry("models/gemini-1.0-pro", TRUE) >>,
      << Entry("models/gemini-1.5-pro-latest", TRUE),
         Entry("models/gemini-1.0-pro", FALSE),
         Entry("models/embedding-001", FALSE),
         Entry("models/gemini-1.5-flash-latest", TRUE) >>,
      << Entry("models/embedding-001", FALSE) >>,
      << Entry("models/gemini-2.0-flash", TRUE) >> }

\* how the configuration block of one execution goes
ConfigOutcomes == { "ok", "no_key", "load_raises", "list_raises" }

----------------------------------------------------------------------------
(* Session State *)

Has(ss, k) == k \in DOMAIN ss
Put(ss, k, v) == [x \in (DOMAIN ss) \cup {k} |-> IF x = k THEN v ELSE ss[x]]
Del(ss, k) == [x \in (DOMAIN ss) \ {k} |-> ss[x]]
EmptyState == [x \in {} |-> NONE]

Message(r, c) == [role |-> r, content |-> c]

----------------------------------------------------------------------------
(* Configuration, model selection and session initialisation: lines 15-85 *)

model_options ==
    << [label |-> "Gemini 1.0 Pro", id |-> "models/gemini-1.0-pro"],
       [label |-> "Gemini 1.5 Flash", id |-> "models/gemini-1.5-flash-latest"],
       [label |-> "Gemini 1.5 Pro", id |-> "models/gemini-1.5-pro-latest"] >>

IsGenerative(m) == m.generateContent
available_models(cat) ==
    LET gen == SelectSeq(cat, IsGenerative)
    IN  [i \in 1..Len(gen) |-> gen[i].name]

InSeq(x, s) == \E i \in 1..Len(s) : s[i] = x

\* a variant of line 51 that keeps the order of available_models
AvailableOptionsRemoteOrder(models) ==
    LET InTable(m) == \E k \in 1..Len(model_options) : model_options[k].id = m
        kept == SelectSeq(models, InTable)
    IN  [i \in 1..Len(kept) |->
            model_options[CHOOSE k \in 1..Len(model_options) :
                              model_options[k].id = kept[i]]]

\* line 51
AvailableOptions(models) ==
    LET Keep(o) == InSeq(o.id, models)
    IN  SelectSeq(model_options, Keep)

Labels(opts) == { opts[i].label : i \in 1..Len(opts) }
IdOf(opts, l) == opts[CHOOSE i \in 1..Len(opts) : opts[i].label = l].id

\* st.sidebar.selectbox(..., index=0): the widget's value, the first option
\* when the widget holds none
Selectbox(opts, sel) == IF sel \in Labels(opts) THEN sel ELSE opts[1].label

Halt(msg) == [halt |-> TRUE, error |-> msg, options |-> << >>]

\* a variant of lines 15-54 without the st.stop() of line 22
ConfigurationNoStop(cfg, cat) ==
    IF cfg = "load_raises" THEN
        Halt(<< "Configuration failed: ", "secrets" >>)
    ELSE IF cfg = "list_raises" THEN
        Halt(<< "Configuration failed: ", "list_models" >>)
    ELSE IF available_models(cat) = << >> THEN
        Halt(<< "No available generative models found. Check your API access." >>)
    ELSE IF AvailableOptions(available_models(cat)) = << >> THEN
        Halt(<< "No supported models available in your region" >>)
    ELSE [halt |-> FALSE,
          error |-> IF cfg = "no_key"
                    THEN << "GEMINI_API_KEY not found in secrets.toml" >>
                    ELSE NONE,
          options |-> AvailableOptions(available_models(cat))]

\* lines 15-54
Configuration(cfg, cat) ==
    IF cfg = "load_raises" THEN
        Halt(<< "Configuration failed: ", "secrets" >>)
    ELSE IF cfg = "no_key" THEN
        Halt(<< "GEMINI_API_KEY not found in secrets.toml" >>)
    ELSE IF cfg = "list_raises" THEN
        Halt(<< "Configuration failed: ", "list_models" >>)
    ELSE IF available_models(cat) = << >> THEN
        Halt(<< "No available generative models found. Check your API access." >>)
    ELSE IF AvailableOptions(available_models(cat)) = << >> THEN
        Halt(<< "No supported models available in your region" >>)
    ELSE [halt |-> FALSE, error |-> NONE,
          options |-> AvailableOptions(available_models(cat))]

\* a variant of lines 81-85 without the "messages" not in st.session_state test
InitSessionStateResets(ss, opts, selected_model) ==
    LET s1 == Put(ss, "messages", << >>)
    IN  IF Has(s1, "gemini_model") THEN s1
        ELSE Put(s1, "gemini_model", IdOf(opts, selected_model))

\* lines 81-85
InitSessionState(ss, opts, selected_model) ==
    LET s1 == IF Has(ss, "messages") THEN ss ELSE Put(ss, "messages", << >>)
    IN  IF Has(s1, "gemini_model") THEN s1
        ELSE Put(s1, "gemini_model", IdOf(opts, selected_model))

CallsList(cfg) == cfg \in { "ok", "list_raises" }

\* One execution from line 1 to line 90 with the selectbox holding sel: the
\* configuration block, the selectbox and the Session State initialisation.
Top(cfg, sel) ==
    LET t == Configuration(cfg, catalog)
    IN  IF t.halt
        THEN [halt |-> TRUE, error |-> t.error, options |-> t.options,
              selected_model |-> sel, ss |-> session_state]
        ELSE [halt |-> FALSE, error |-> t.error, options |-> t.options,
              selected_model |-> Selectbox(t.options, sel),
              ss |-> InitSessionState(session_state, t.options,
                                      Selectbox(t.options, sel))]

\* what the execution t leaves in the widgets
Widgets(cfg, t) ==
    /\ halted' = t.halt
    /\ config' = cfg
    /\ available_options' = t.options
    /\ selection' = t.selected_model
    /\ list_calls' = IF CallsList(cfg) THEN Min2(list_calls + 1, 2)
                      ELSE list_calls

\* what the execution t leaves on screen and in the widgets
Rendered(cfg, t) ==
    /\ Widgets(cfg, t)
    /\ error_box' = t.error

\* the locals of a prompt turn, as they are when no turn is running
NoTurn ==
    /\ prompt' = NONE
    /\ full_response' = << >>
    /\ message_placeholder' = NONE
    /\ attempt_number' = 0
    /\ exc' = NONE
    /\ response' = << >>
    /\ received' = << >>
    /\ trace' = << >>

----------------------------------------------------------------------------
Init ==
    /\ session_state = EmptyState
    /\ selection = NO_SELECTION
    /\ catalog \in Catalogs
    /\ available_options = << >>
    /\ halted = FALSE
    /\ pc = "start"
    /\ prompt = NONE
    /\ full_response = << >>
    /\ message_placeholder = NONE
    /\ error_box = NONE
    /\ attempt_number = 0
    /\ exc = NONE
    /\ response = << >>
    /\ received = << >>
    /\ trace = << >>
    /\ turns = << >>
    /\ created = << >>
    /\ cleared_at = 0
    /\ list_calls = 0
    /\ config = "none"
    /\ nprompts = 0
    /\ nclears = 0

\* an execution with no widget event that runs to the end of the script:
\* the first load of the page, and the execution st.rerun() asks for
RunToEnd(sel) ==
    \E cfg \in ConfigOutcomes :
        LET t == Top(cfg, sel)
        IN  /\ Rendered(cfg, t)
            /\ session_state' = t.ss
            /\ pc' = "idle"
            /\ NoTurn
            /\ UNCHANGED << catalog, turns, created, cleared_at, nprompts, nclears >>

\* first load, or the execution requested by st.rerun() (line 144)
Rerun ==
    /\ pc = "start"
    /\ RunToEnd(selection)

\* the user reruns the page from the menu
Refresh ==
    /\ pc = "idle"
    /\ RunToEnd(selection)

\* the user picks another entry of the selectbox (lines 58-62)
ChangeModel ==
    /\ pc = "idle"
    /\ ~halted
    /\ \E m \in Labels(available_options) :
          /\ m # selection
          /\ RunToEnd(m)

\* a variant of lines 140-144 without the deletion of chat_session
ClearKeepsSession(ss) == Put(ss, "messages", << >>)

\* a variant of line 142 that always takes the branch
ClearGuardAlways(ss) == TRUE

\* line 142
ClearGuard(ss) == Has(ss, "chat_session")

\* line 143: del raises KeyError when the key is absent
ClearRaises(ss) == ClearGuard(ss) /\ ~Has(ss, "chat_session")

\* lines 140-144
ClearChatHistory(ss) ==
    LET s1 == Put(ss, "messages", << >>)
    IN  IF ClearGuard(s1) THEN Del(s1, "chat_session") ELSE s1

\* the user clicks "Clear Chat History": an execution with the button true
ClickClear ==
    /\ pc = "idle"
    /\ ~halted
    /\ nclears < MaxClears
    /\ \E cfg \in ConfigOutcomes :
          LET t == Top(cfg, selection)
          IN  /\ Widgets(cfg, t)
              /\ NoTurn
              /\ UNCHANGED << catalog, created, nprompts >>
              /\ nclears' = nclears + 1
              /\ IF t.halt
                 THEN /\ session_state' = t.ss
                      /\ error_box' = t.error
                      /\ pc' = "idle"
                      /\ UNCHANGED << turns, cleared_at >>
                 ELSE /\ session_state' = ClearChatHistory(t.ss)
                      /\ turns' = << >>
                      /\ cleared_at' = Len(created)
                      /\ IF ClearRaises(t.ss)
                         THEN \* uncaught: the execution ends before st.rerun()
                              /\ error_box' = << "KeyError: ", "chat_session" >>
                              /\ pc' = "idle"
                         ELSE /\ error_box' = t.error
                              /\ pc' = "start"

----------------------------------------------------------------------------
(* A prompt turn: lines 93-134 *)

Turn(p, o, r) == [prompt |-> p, outcome |-> o, reply |-> r]
Finish(ts, o, r) == [ts EXCEPT ![Len(ts)] = Turn(ts[Len(ts)].prompt, o, r)]

Event(e, t, n) == [ev |-> e, text |-> t, n |-> n]

\* line 97
append_user(ss, p) ==
    Put(ss, "messages", Append(ss["messages"], Message("user", p)))

\* lines 93-102: the user submits a prompt
SubmitPrompt ==
    /\ pc = "idle"
    /\ ~halted
    /\ nprompts < MaxPrompts
    /\ \E p \in Prompts, cfg \in ConfigOutcomes :
          LET t == Top(cfg, selection)
          IN  /\ Rendered(cfg, t)
              /\ nprompts' = nprompts + 1
              /\ UNCHANGED << catalog, created, cleared_at, nclears >>
              /\ IF t.halt
                 THEN /\ session_state' = t.ss
                      /\ pc' = "idle"
                      /\ NoTurn
                      /\ UNCHANGED turns
                 ELSE /\ session_state' = append_user(t.ss, p)
                      /\ prompt' = p
                      /\ full_response' = << >>
                      /\ message_placeholder' = << >>
                      /\ pc' = "init_model"
                      /\ turns' = Append(turns, Turn(p, "running", << >>))
                      /\ UNCHANGED << attempt_number, exc, response, received,
                                      trace >>

\* line 106: genai.GenerativeModel(...) returns or raises
InitModel ==
    /\ pc = "init_model"
    /\ \/ /\ pc' = "start_chat"
          /\ UNCHANGED << exc, turns >>
       \/ \E e \in ErrTexts :
             /\ exc' = e
             /\ pc' = "except"
             /\ turns' = Finish(turns, "model", << >>)
    /\ UNCHANGED << session_state, selection, catalog, available_options,
                    halted, prompt, full_response, message_placeholder,
                    error_box, attempt_number, response, received, trace,
                    created, cleared_at, list_calls, config, nprompts, nclears >>

\* a variant of lines 109-110 without the "chat_session" not in test
StartChatAlways ==
    /\ pc = "start_chat"
    /\ \/ /\ session_state' =
               Put(session_state, "chat_session", Len(created) + 1)
          /\ created' = Append(created,
                               [id |-> Len(created) + 1,
                                model |-> session_state["gemini_model"],
                                history |-> << >>])
          /\ pc' = "send"
          /\ UNCHANGED << exc, turns >>
       \/ \E e \in ErrTexts :
             /\ exc' = e
             /\ pc' = "except"
             /\ turns' = Finish(turns, "session", << >>)
             /\ UNCHANGED << session_state, created >>
    /\ UNCHANGED << selection, catalog, available_options, halted, prompt,
                    full_response, message_placeholder, error_box,
                    attempt_number, response, received, trace, cleared_at,
                    list_calls, config, nprompts, nclears >>

\* lines 109-110: the chat session is created when the key is absent
StartChat ==
    /\ pc = "start_chat"
    /\ IF Has(session_state, "chat_session")
       THEN /\ pc' = "send"
            /\ UNCHANGED << session_state, created, exc, turns >>
       ELSE \/ /\ session_state' =
                     Put(session_state, "chat_session", Len(created) + 1)
               /\ created' = Append(created,
                                [id |-> Len(created) + 1,
                                 model |-> session_state["gemini_model"],
                                 history |-> << >>])
               /\ pc' = "send"
               /\ UNCHANGED << exc, turns >>
            \/ \E e \in ErrTexts :
                  /\ exc' = e
                  /\ pc' = "except"
                  /\ turns' = Finish(turns, "session", << >>)
                  /\ UNCHANGED << session_state, created >>
    /\ UNCHANGED << selection, catalog, available_options, halted, prompt,
                    full_response, message_placeholder, error_box,
                    attempt_number, response, received, trace, cleared_at,
                    list_calls, config, nprompts, nclears >>

\* a variant of lines 75-76 that looks for "429" only
ExtraDelay429Only(e) ==
    IF Contains(S429, e)
    THEN << Event("sleep_quota", NONE, QuotaDelay) >>
    ELSE << >>

\* lines 75-76: the additional sleep of a failed attempt
ExtraDelay(e) ==
    IF Contains(QUOTA, Lower(e)) \/ Contains(S429, e)
    THEN << Event("sleep_quota", NONE, QuotaDelay) >>
    ELSE << >>

\* a variant of lines 72-78 whose except branch drops the chat session
SendAttemptResetsSession ==
    /\ pc = "send"
    /\ attempt_number' = attempt_number + 1
    /\ LET call == Event("call", prompt, session_state["chat_session"])
       IN  \/ \E s \in Streams :
                 /\ response' = s
                 /\ trace' = Append(trace, call)
                 /\ pc' = "stream"
                 /\ UNCHANGED << exc, session_state >>
           \/ \E e \in ErrTexts :
                 /\ exc' = e
                 /\ trace' = Append(trace, call)
                                 \o << Event("fail", e, attempt_number + 1) >>
                                 \o ExtraDelay(e)
                 /\ pc' = "raised"
                 /\ session_state' = Del(session_state, "chat_session")
                 /\ UNCHANGED response
    /\ UNCHANGED << selection, catalog, available_options,
                    halted, prompt, full_response, message_placeholder,
                    error_box, received, turns, created, cleared_at,
                    list_calls, config, nprompts, nclears >>

\* lines 72-78, one attempt: chat_session.send_message returns a stream, or
\* raises and the exception leaves the function after the additional sleep
SendAttempt ==
    /\ pc = "send"
    /\ attempt_number' = attempt_number + 1
    /\ LET call == Event("call", prompt, session_state["chat_session"])
       IN  \/ \E s \in Streams :
                 /\ response' = s
                 /\ trace' = Append(trace, call)
                 /\ pc' = "stream"
                 /\ UNCHANGED exc
           \/ \E e \in ErrTexts :
                 /\ exc' = e
                 /\ trace' = Append(trace, call)
                                 \o << Event("fail", e, attempt_number + 1) >>
                                 \o ExtraDelay(e)
                 /\ pc' = "raised"
                 /\ UNCHANGED response
    /\ UNCHANGED << session_state, selection, catalog, available_options,
                    halted, prompt, full_response, message_placeholder,
                    error_box, received, turns, created, cleared_at,
                    list_calls, config, nprompts, nclears >>

\* a variant of line 67 without the min clamp
wait_exponential_no_min(n) == Min2(WaitMultiplier * Pow2(n - 1), WaitMax)

\* line 67: wait_exponential(multiplier=1, min=4, max=10) after attempt n
wait_exponential(n) ==
    Max2(Max2(0, WaitMin), Min2(WaitMultiplier * Pow2(n - 1), WaitMax))

\* a variant of line 66 that stops one attempt later
stop_after_attempt_late(n) == n > StopAfterAttempt

\* line 66: stop_after_attempt(3)
stop_after_attempt(n) == n >= StopAfterAttempt

\* lines 65-69: the retry decorator after a failed attempt: reraise when the
\* attempts are used up, otherwise wait and call the function again
Retry ==
    /\ pc = "raised"
    /\ IF stop_after_attempt(attempt_number)
       THEN /\ pc' = "except"
            /\ turns' = Finish(turns, "send", << >>)
            /\ UNCHANGED << exc, trace >>
       ELSE /\ pc' = "send"
            /\ exc' = NONE
            /\ trace' = Append(trace,
                               Event("sleep_backoff", NONE,
                                     wait_exponential(attempt_number)))
            /\ UNCHANGED turns
    /\ UNCHANGED << session_state, selection, catalog, available_options,
                    halted, prompt, full_response, message_placeholder,
                    error_box, attempt_number, response, received, created,
                    cleared_at, list_calls, config, nprompts, nclears >>

\* a variant of lines 116-118 that assigns the chunk instead of adding it
StreamChunkOverwrites ==
    /\ pc = "stream"
    /\ response # << >>
    /\ full_response' = Head(response)
    /\ message_placeholder' = Head(response) \o CURSOR
    /\ received' = Append(received, Head(response))
    /\ response' = Tail(response)
    /\ UNCHANGED << session_state, selection, catalog, available_options,
                    halted, pc, prompt, error_box, attempt_number, exc, trace,
                    turns, created, cleared_at, list_calls, config, nprompts, nclears >>

\* lines 116-118: the stream yields its next chunk
StreamChunk ==
    /\ pc = "stream"
    /\ response # << >>
    /\ full_response' = full_response \o Head(response)
    /\ message_placeholder' = (full_response \o Head(response)) \o CURSOR
    /\ received' = Append(received, Head(response))
    /\ response' = Tail(response)
    /\ UNCHANGED << session_state, selection, catalog, available_options,
                    halted, pc, prompt, error_box, attempt_number, exc, trace,
                    turns, created, cleared_at, list_calls, config, nprompts, nclears >>

\* a variant of lines 116-120 without the final rendering of line 120
StreamEndKeepsCursor ==
    /\ pc = "stream"
    /\ response = << >>
    /\ pc' = "append"
    /\ turns' = Finish(turns, "ok", Flatten(received))
    /\ UNCHANGED << session_state, selection, catalog, available_options,
                    halted, prompt, full_response, message_placeholder,
                    error_box, attempt_number, exc, response, received, trace,
                    created, cleared_at, list_calls, config, nprompts, nclears >>

\* lines 116-120: the stream is exhausted
StreamEnd ==
    /\ pc = "stream"
    /\ response = << >>
    /\ message_placeholder' = full_response
    /\ pc' = "append"
    /\ turns' = Finish(turns, "ok", Flatten(received))
    /\ UNCHANGED << session_state, selection, catalog, available_options,
                    halted, prompt, full_response, error_box, attempt_number,
                    exc, response, received, trace, created, cleared_at,
                    list_calls, config, nprompts, nclears >>

\* lines 116-117: the iteration or chunk.text raises
StreamFail ==
    /\ pc = "stream"
    /\ \E e \in StreamErrTexts : exc' = e
    /\ pc' = "except"
    /\ turns' = Finish(turns, "stream", << >>)
    /\ UNCHANGED << session_state, selection, catalog, available_options,
                    halted, prompt, full_response, message_placeholder,
                    error_box, attempt_number, response, received, trace,
                    created, cleared_at, list_calls, config, nprompts, nclears >>

\* a variant of lines 123-127 that compares without lower()
error_msg_case_sensitive(e) ==
    IF Contains(QUOTA, e) \/ Contains(S429, e)
    THEN RATE_LIMIT_NOTICE
    ELSE ERROR_PREFIX \o e

\* lines 123-127
error_msg(e) ==
    IF Contains(QUOTA, Lower(e)) \/ Contains(S429, e)
    THEN RATE_LIMIT_NOTICE
    ELSE ERROR_PREFIX \o e

\* a variant of the error handler that keeps a partial response
HandleErrorKeepsPartial ==
    /\ pc = "except"
    /\ error_box' = error_msg(exc)
    /\ full_response' = IF full_response = << >> THEN FALLBACK
                        ELSE full_response
    /\ message_placeholder' = IF full_response = << >> THEN FALLBACK
                              ELSE full_response
    /\ pc' = "append"
    /\ UNCHANGED << session_state, selection, catalog, available_options,
                    halted, prompt, attempt_number, exc, response, received,
                    trace, turns, created, cleared_at, list_calls, config,
                    nprompts, nclears >>

\* a variant of the error handler that ends the execution before line 134
HandleErrorStops ==
    /\ pc = "except"
    /\ error_box' = error_msg(exc)
    /\ pc' = "idle"
    /\ NoTurn
    /\ UNCHANGED << session_state, selection, catalog, available_options,
                    halted, turns, created, cleared_at, list_calls, config, nprompts,
                    nclears >>

\* a variant of the error handler that also drops the chat session
HandleErrorDropsSession ==
    /\ pc = "except"
    /\ error_box' = error_msg(exc)
    /\ full_response' = FALLBACK
    /\ message_placeholder' = FALLBACK
    /\ pc' = "append"
    /\ session_state' = IF Has(session_state, "chat_session")
                        THEN Del(session_state, "chat_session")
                        ELSE session_state
    /\ UNCHANGED << selection, catalog, available_options,
                    halted, prompt, attempt_number, exc, response, received,
                    trace, turns, created, cleared_at, list_calls, config, nprompts,
                    nclears >>

\* lines 122-131: the per-message error handler
HandleError ==
    /\ pc = "except"
    /\ error_box' = error_msg(exc)
    /\ full_response' = FALLBACK
    /\ message_placeholder' = FALLBACK
    /\ pc' = "append"
    /\ UNCHANGED << session_state, selection, catalog, available_options,
                    halted, prompt, attempt_number, exc, response, received,
                    trace, turns, created, cleared_at, list_calls, config, nprompts,
                    nclears >>

\* a variant of line 134 that inserts the reply at the front of the history
append_assistant_front(ss, r) ==
    Put(ss, "messages", << Message("assistant", r) >> \o ss["messages"])

\* line 134
append_assistant(ss, r) ==
    Put(ss, "messages", Append(ss["messages"], Message("assistant", r)))

\* line 134, then the sidebar with the button false: the execution ends
AppendAssistant ==
    /\ pc = "append"
    /\ session_state' = append_assistant(session_state, full_response)
    /\ pc' = "idle"
    /\ NoTurn
    /\ UNCHANGED << selection, catalog, available_options, halted, error_box,
                    turns, created, cleared_at, list_calls, config, nprompts, nclears >>

----------------------------------------------------------------------------
Next ==
    \/ Rerun
    \/ Refresh
    \/ ChangeModel
    \/ ClickClear
    \/ SubmitPrompt
    \/ InitModel
    \/ StartChat
    \/ SendAttempt
    \/ Retry
    \/ StreamChunk
    \/ StreamEnd
    \/ StreamFail
    \/ HandleError
    \/ AppendAssistant

Spec == Init /\ [][Next]_vars

----------------------------------------------------------------------------
(* Vocabulary of the properties *)

HasMessages == Has(session_state, "messages")
HasSession == Has(session_state, "chat_session")
messages == session_state["messages"]
chat_session == session_state["chat_session"]

\* the turn in progress (or the last one completed) since the last clear
ThisTurn == turns[Len(turns)]

\* turns whose prompt got as far as the remote send
ReachedSend(t) == t.outcome \in { "ok", "send", "stream" }

AllOk == \A i \in 1..Len(turns) : turns[i].outcome = "ok"

----------------------------------------------------------------------------
\* C1: after n successful sends with no clear in between, messages holds
\* exactly 2n entries; entry 2i-1 (counting from 1) is the i-th prompt with
\* role "user" and entry 2i is the reply streamed for it with role
\* "assistant".
C1_AlternatingHistory ==
    (pc = "idle" /\ HasMessages /\ AllOk) =>
        /\ Len(messages) = 2 * Len(turns)
        /\ \A i \in 1..Len(turns) :
              /\ messages[2 * i - 1] = Message("user", turns[i].prompt)
              /\ messages[2 * i] = Message("assistant", turns[i].reply)

C1_Witness ==
    /\ pc = "idle"
    /\ Len(turns) = 2
    /\ AllOk
    /\ turns[1].prompt # turns[2].prompt
    /\ turns[1].reply # turns[2].reply

\* C2 as stated: at the end of every execution, chat_session is present
\* exactly when at least one exchange has been added to the history since
\* the last clear.
C2_SessionIffExchange ==
    pc = "idle" => (HasSession <=> Len(turns) > 0)

\* C2 amended: at the end of every execution, chat_session is present
\* exactly when some prompt submitted since the last clear got past model
\* initialisation and session creation; in particular it is present only if
\* an exchange has occurred.
C2_SessionIffCreated ==
    pc \in { "idle", "start" } =>
        /\ HasSession <=> \E i \in 1..Len(turns) : ReachedSend(turns[i])
        /\ HasSession => Len(turns) > 0

C2_Witness ==
    /\ pc = "idle"
    /\ Len(turns) = 2
    /\ turns[1].outcome = "model"
    /\ turns[2].outcome = "session"
    /\ ~HasSession
    /\ Len(messages) = 4

\* C3: the clear-history action leaves messages empty and no chat session
\* handle, and the first remote send after a clear goes to a chat session
\* created after that clear, with empty history, whose handle differs from
\* every handle created before.
C3_ClearThenFreshSession ==
    /\ (pc = "start" /\ HasMessages) => (messages = << >> /\ ~HasSession)
    /\ (/\ pc \in { "send", "raised", "stream" }
        /\ \A i \in 1..(Len(turns) - 1) : ~ReachedSend(turns[i]))
       => /\ HasSession
          /\ chat_session = Len(created)
          /\ chat_session > cleared_at
          /\ created[chat_session].history = << >>
          /\ \A j \in 1..(chat_session - 1) :
                created[j].id # created[chat_session].id

C3_Witness ==
    /\ pc = "send"
    /\ attempt_number = 0
    /\ nclears > 0
    /\ cleared_at > 0
    /\ Len(turns) = 1
    /\ chat_session > cleared_at

----------------------------------------------------------------------------
(* Vocabulary of the retry properties *)

IsCall(e) == e.ev = "call"
IsFail(e) == e.ev = "fail"
IsBackoff(e) == e.ev = "sleep_backoff"

\* remote send calls, failed attempts and backoff waits of the turn so far
Calls == SelectSeq(trace, IsCall)
Fails == SelectSeq(trace, IsFail)
Backoffs == SelectSeq(trace, IsBackoff)

\* the error text holds "429", or "quota" in any mix of cases
RateLimited(e) ==
    \/ \E i \in 1..(Len(e) - 2) : SubSeq(e, i, i + 2) = << "4", "2", "9" >>
    \/ \E i \in 1..(Len(e) - 4) :
          /\ e[i] \in { "q", "Q" }
          /\ e[i + 1] \in { "u", "U" }
          /\ e[i + 2] \in { "o", "O" }
          /\ e[i + 3] \in { "t", "T" }
          /\ e[i + 4] \in { "a", "A" }

\* the send of this turn failed on every attempt
SendFailed == Len(turns) > 0 /\ ThisTurn.outcome = "send"

----------------------------------------------------------------------------
\* C4: for one prompt at most 3 remote send calls are made; a failure is
\* propagated to the per-message error handler only after the 3rd call, and
\* then the handler receives the error of that 3rd attempt and reports it.
C4_BoundedRetry ==
    /\ Len(Calls) <= 3
    /\ pc = "send" => Len(Calls) < 3
    /\ pc = "raised" => (Len(Fails) = Len(Calls) /\ exc = Fails[Len(Fails)].text)
    /\ (pc \in { "except", "append" } /\ SendFailed) =>
          /\ Len(Calls) = 3
          /\ Len(Fails) = 3
          /\ exc = Fails[3].text
    /\ (pc = "append" /\ SendFailed) =>
          /\ error_box \in { RATE_LIMIT_NOTICE, ERROR_PREFIX \o Fails[3].text }
          /\ full_response = FALLBACK

C4_Witness ==
    /\ pc = "append"
    /\ SendFailed
    /\ Len(Calls) = 3
    /\ error_box = ERROR_PREFIX \o ENear

\* the send failed on attempts 1 and 2 with a non-quota error, succeeded on
\* attempt 3 and its stream was consumed to the end
FailFailSucceed ==
    /\ pc = "append"
    /\ ThisTurn.outcome = "ok"
    /\ Len(Fails) = 2
    /\ Fails[1].n = 1 /\ ~RateLimited(Fails[1].text)
    /\ Fails[2].n = 2 /\ ~RateLimited(Fails[2].text)

\* C5: when the send fails on attempts 1 and 2 with a non-quota error and
\* succeeds on attempt 3, exactly 3 remote send calls were made, the text on
\* display and the persisted assistant entry are the streamed response, and
\* no error notice and no fallback sentence is produced.
C5_ThirdAttemptSucceeds ==
    /\ [](FailFailSucceed =>
            /\ Len(Calls) = 3
            /\ message_placeholder = ThisTurn.reply
            /\ message_placeholder # FALLBACK
            /\ error_box = NONE)
    /\ [][FailFailSucceed =>
            /\ pc' = "idle"
            /\ Len(messages') = Len(messages) + 1
            /\ messages'[Len(messages')] = Message("assistant", ThisTurn.reply)
            /\ error_box' = NONE]_vars

C5_Witness ==
    /\ FailFailSucceed
    /\ Len(Calls) = 3
    /\ ThisTurn.reply = << "a", "b" >>

\* C6: whenever the send ultimately fails, the assistant entry persisted for
\* the turn is the fixed fallback sentence and does not hold the error
\* text, and the notice shown is the rate-limit notice exactly when the
\* final error text holds "quota" (in any case) or "429", and otherwise the
\* generic message followed by the error text.
C6_FallbackAndNotice ==
    /\ (pc = "append" /\ SendFailed) =>
          /\ full_response = FALLBACK
          /\ message_placeholder = FALLBACK
          /\ ~Contains(exc, full_response)
          /\ RateLimited(exc) <=> error_box = RATE_LIMIT_NOTICE
          /\ ~RateLimited(exc) => error_box = ERROR_PREFIX \o exc
    /\ (pc = "idle" /\ HasMessages) =>
          \A i \in 1..Len(turns) :
              turns[i].outcome = "send" =>
                  /\ 2 * i <= Len(messages)
                  /\ messages[2 * i] = Message("assistant", FALLBACK)

C6_Witness ==
    /\ pc = "append"
    /\ SendFailed
    /\ exc = EQuota
    /\ error_box = RATE_LIMIT_NOTICE

\* C7: a failing prompt never ends the session: every prompt taken since
\* the last clear adds exactly its user entry and then one assistant entry
\* (the fallback when the turn failed), so at the end of every execution
\* len(messages) is twice the number of prompts taken, whatever mix of
\* successes and failures occurred.
C7_FailureKeepsSession ==
    HasMessages =>
        /\ pc \in { "idle", "start" } => Len(messages) = 2 * Len(turns)
        /\ pc \notin { "idle", "start" } => Len(messages) = 2 * Len(turns) - 1
        /\ \A i \in 1..Len(turns) :
              /\ messages[2 * i - 1] = Message("user", turns[i].prompt)
              /\ (2 * i <= Len(messages) /\ turns[i].outcome # "ok") =>
                    messages[2 * i] = Message("assistant", FALLBACK)

C7_Witness ==
    /\ pc = "idle"
    /\ Len(turns) = 2
    /\ turns[1].outcome = "send"
    /\ turns[2].outcome = "ok"
    /\ Len(messages) = 4

\* C8: a failed attempt is followed by the additional 5-unit sleep exactly
\* when its error text holds "quota" (in any case) or "429"; the sleep
\* comes right after the failure, before the backoff wait and the retry.
C8_QuotaDelay ==
    \A i \in 1..Len(trace) :
        /\ IsFail(trace[i]) =>
              IF RateLimited(trace[i].text)
              THEN i < Len(trace) /\ trace[i + 1] = Event("sleep_quota", NONE, 5)
              ELSE i < Len(trace) => trace[i + 1].ev # "sleep_quota"
        /\ trace[i].ev = "sleep_quota" => (i > 1 /\ IsFail(trace[i - 1]))
        /\ (IsCall(trace[i]) /\ i > 1) =>
              /\ IsBackoff(trace[i - 1])
              /\ i > 2
              /\ trace[i - 2].ev \in { "fail", "sleep_quota" }

C8_Witness ==
    /\ Len(trace) >= 8
    /\ trace[2] = Event("fail", EQuota, 1)
    /\ trace[3].ev = "sleep_quota"
    /\ trace[4].ev = "sleep_backoff"
    /\ trace[5].ev = "call"
    /\ trace[6] = Event("fail", ENear, 2)
    /\ trace[7].ev = "sleep_backoff"
    /\ trace[8].ev = "call"

\* the exponential value 1 * 2^(k-1) clamped to [4, 10]
ClampedExponential(k) ==
    LET e == 1 * 2^(k - 1)
    IN  IF e < 4 THEN 4 ELSE IF e > 10 THEN 10 ELSE e

\* C9: the k-th backoff wait of a send is 1 * 2^(k-1) clamped to at least 4
\* and at most 10, so every wait lies in [4, 10] and waits never decrease.
C9_Backoff ==
    \A k \in 1..Len(Backoffs) :
        /\ Backoffs[k].n = ClampedExponential(k)
        /\ Backoffs[k].n >= 4
        /\ Backoffs[k].n <= 10
        /\ k > 1 => Backoffs[k].n >= Backoffs[k - 1].n

C9_Witness ==
    /\ pc = "send"
    /\ Len(Backoffs) = 2
    /\ Len(Calls) = 2

\* C10: no step of send_message_with_retry (an attempt, its additional
\* sleep, the backoff wait, the retry, the final reraise) changes Session
\* State: messages, gemini_model and chat_session keep their values.
C10_RetryLeavesState ==
    [][(pc = "send" \/ pc = "raised") => session_state' = session_state]_vars

C10_Witness ==
    /\ pc = "send"
    /\ attempt_number = 2
    /\ Len(Backoffs) = 2
    /\ HasSession
    /\ Len(messages) = 3

----------------------------------------------------------------------------
\* s is t or a front part of t
IsPrefix(s, t) == Len(s) <= Len(t) /\ SubSeq(t, 1, Len(s)) = s

\* the step in which lines 141-144 run
ClearActs == pc = "idle" /\ pc' = "start"

\* C11: messages is append-only except for clear: every step leaves it
\* unchanged, extends it at the end keeping every entry in place, or, only
\* in the clear-history step, resets it to the empty sequence; it starts
\* empty when the key is created.
C11_AppendOnly ==
    [][/\ HasMessages =>
             /\ Has(session_state', "messages")
             /\ \/ IsPrefix(messages, messages')
                \/ ClearActs /\ messages' = << >>
       /\ (~HasMessages /\ Has(session_state', "messages")) => messages' = << >>
      ]_vars

C11_Witness ==
    /\ pc = "idle"
    /\ nclears = 1
    /\ cleared_at = 1
    /\ Len(messages) = 2
    /\ Len(turns) = 1
    /\ nprompts = 2

----------------------------------------------------------------------------
\* the step of an execution in which the clear button is true and the
\* configuration block does not halt
ClearClicked == nclears' = nclears + 1 /\ ~halted'

\* C12: clear-history is idempotent: it always completes without an error
\* and leaves messages empty and no chat session handle; invoked when
\* messages is already empty and no handle exists (as right after another
\* clear) it leaves Session State as it was, and applying it twice gives
\* the same state as applying it once.
C12_ClearIdempotent ==
    /\ [](HasMessages =>
            ClearChatHistory(ClearChatHistory(session_state))
                = ClearChatHistory(session_state))
    /\ [][ClearClicked =>
            /\ pc' = "start"
            /\ error_box' = NONE
            /\ messages' = << >>
            /\ ~Has(session_state', "chat_session")
            /\ (HasMessages /\ messages = << >> /\ ~HasSession) =>
                  session_state' = session_state]_vars

C12_Witness ==
    /\ pc = "start"
    /\ nclears = 2
    /\ nprompts = 0
    /\ messages = << >>
    /\ ~HasSession
    /\ error_box = NONE

----------------------------------------------------------------------------
\* the ids of the remote models that support generation
Generative ==
    { catalog[i].name : i \in { k \in 1..Len(catalog) : catalog[k].generateContent } }

\* position of an entry in the static preference table
TableIndex(o) == CHOOSE n \in 1..Len(model_options) : model_options[n] = o

\* the last execution got past the configuration block
Selectable == ~halted /\ HasMessages

\* C13: the selectable catalog is exactly the entries of the preference
\* table whose id is among the remote models that support generation, in
\* preference-table order, and the selectbox starts on its first entry.
C13_CatalogFilter ==
    /\ [](\A i \in 1..Len(available_options) :
              /\ \E k \in 1..Len(model_options) :
                    model_options[k] = available_options[i]
              /\ available_options[i].id \in Generative)
    /\ [](Selectable =>
              \A k \in 1..Len(model_options) :
                  model_options[k].id \in Generative =>
                      \E i \in 1..Len(available_options) :
                          available_options[i] = model_options[k])
    /\ [](\A a, b \in 1..Len(available_options) :
              a < b => TableIndex(available_options[a])
                           < TableIndex(available_options[b]))
    /\ [][(selection = NO_SELECTION /\ selection' # NO_SELECTION) =>
            /\ ~halted'
            /\ selection' = available_options'[1].label]_vars

C13_Witness ==
    /\ pc = "idle"
    /\ Selectable
    /\ catalog[1].name = "models/gemini-1.5-pro-latest"
    /\ Len(available_options) = 2
    /\ available_options[1].label = "Gemini 1.5 Flash"
    /\ available_options[2].label = "Gemini 1.5 Pro"
    /\ selection = "Gemini 1.5 Flash"
    /\ list_calls = 1

----------------------------------------------------------------------------
\* the ids of the static preference table
TableIds == { model_options[k].id : k \in 1..Len(model_options) }

\* the credential is missing, the model list cannot be had, no remote model
\* supports generation, or none of those is in the preference table
Fatal(cfg) ==
    \/ cfg \in { "no_key", "load_raises", "list_raises" }
    \/ Generative = {}
    \/ Generative \cap TableIds = {}

\* C14: an execution in which the credential is missing, the model-list
\* call raises, no remote model supports generation or none of them is in
\* the preference table shows an error and halts before any chat
\* interaction: nothing is appended to messages, no chat session is created
\* and no remote send is made.
C14_FatalHalts ==
    [][((pc = "idle" \/ pc = "start") /\ Fatal(config')) =>
          /\ halted'
          /\ error_box' # NONE
          /\ pc' = "idle"
          /\ session_state' = session_state
          /\ created' = created
          /\ turns' = turns
          /\ trace' = << >>]_vars

C14_Witness ==
    /\ pc = "idle"
    /\ halted
    /\ config = "list_raises"
    /\ error_box = << "Configuration failed: ", "list_models" >>
    /\ nprompts = 2
    /\ Len(messages) = 2
    /\ HasSession

----------------------------------------------------------------------------
\* C15: the remote model catalog is requested once per session and is not
\* requested again on later interaction cycles.
C15_CatalogOnce == list_calls <= 1

\* C16: the model id stored in Session State is the id of the catalog entry
\* the selectbox holds, so the model initialised for a send (line 106) is
\* the one the user currently has selected.
C16_ModelFollowsSelection ==
    pc = "init_model" =>
        session_state["gemini_model"] = IdOf(available_options, selection)

----------------------------------------------------------------------------
\* the stream of this turn was consumed to its end
StreamDone == pc = "append" /\ ThisTurn.outcome = "ok"

\* C17: while a stream is consumed, the text shown after the k-th chunk is
\* the chunks 1..k joined in stream order followed by the cursor marker;
\* when the stream completes, the text shown and the persisted assistant
\* entry are all chunks of the returned stream joined in stream order,
\* without the marker: no chunk is dropped, reordered or duplicated.
C17_StreamOrder ==
    /\ [](pc = "stream" =>
            /\ (received \o response) \in Streams
            /\ full_response = Flatten(received)
            /\ Len(received) >= 1 =>
                  message_placeholder = Flatten(received) \o CURSOR)
    /\ [](StreamDone =>
            /\ received \in Streams
            /\ full_response = Flatten(received)
            /\ message_placeholder = Flatten(received))
    /\ [][StreamDone =>
            messages' = Append(messages,
                               Message("assistant", Flatten(received)))]_vars

C17_Witness ==
    /\ pc = "stream"
    /\ received = << << "a" >>, << "b" >> >>
    /\ response = << >>
    /\ message_placeholder = << "a", "b" >> \o CURSOR

----------------------------------------------------------------------------
\* every remote send call of the turn so far went to handle h
CallsUse(h) == \A k \in 1..Len(trace) : IsCall(trace[k]) => trace[k].n = h

\* turn i got past model initialisation and session creation
PastCreation(i) ==
    \/ ReachedSend(turns[i])
    \/ i = Len(turns) /\ pc \in { "send", "raised", "stream" }

\* C18 as stated: since the last clear (or the session start) at most one
\* chat session is created; it is created on the first prompt submission
\* of the period, not before, and every send of the period uses it.
C18_SessionOnFirstPrompt ==
    /\ Len(created) <= cleared_at + 1
    /\ Len(turns) = 0 => ~HasSession
    /\ (pc = "idle" /\ Len(turns) >= 1) =>
          (HasSession /\ chat_session = cleared_at + 1)
    /\ CallsUse(cleared_at + 1)

\* C18 amended: since the last clear (or the session start) at most one
\* chat session is created; it is created by the first prompt submission
\* of the period that gets past model initialisation and whose start_chat
\* succeeds, not before, and every send of the period uses that handle,
\* also after the user changed the selected model.
C18_SessionOnFirstSend ==
    /\ Len(created) <= cleared_at + 1
    /\ (\A i \in 1..Len(turns) : ~PastCreation(i)) =>
          (~HasSession /\ Len(created) = cleared_at)
    /\ (\E i \in 1..Len(turns) : PastCreation(i)) =>
          /\ HasSession
          /\ chat_session = cleared_at + 1
          /\ Len(created) = cleared_at + 1
    /\ CallsUse(cleared_at + 1)

C18_Witness ==
    /\ pc = "raised"
    /\ Len(turns) = 2
    /\ turns[1].outcome = "ok"
    /\ Len(created) = 1
    /\ chat_session = 1
    /\ trace[1] = Event("call", prompt, 1)
    /\ IdOf(available_options, selection) # created[1].model

----------------------------------------------------------------------------
\* the stream of this turn raised while it was consumed
StreamRaised == Len(turns) > 0 /\ ThisTurn.outcome = "stream"

\* C19: when the stream raises after the send call returned and k >= 0
\* chunks were accumulated, no further remote send is made for the prompt
\* (the call that returned stays the last one, with no sleep after it),
\* the partial buffer is discarded, and the text shown and the persisted
\* assistant entry are the fallback sentence.
C19_StreamFailure ==
    /\ StreamRaised => pc \in { "except", "append", "idle", "start" }
    /\ (StreamRaised /\ pc \in { "except", "append" }) =>
          /\ Len(Calls) = attempt_number
          /\ Len(Fails) = attempt_number - 1
          /\ IsCall(trace[Len(trace)])
    /\ (StreamRaised /\ pc = "append") =>
          /\ full_response = FALLBACK
          /\ message_placeholder = FALLBACK
          /\ error_box # NONE
    /\ (pc = "idle" /\ HasMessages) =>
          \A i \in 1..Len(turns) :
              turns[i].outcome = "stream" =>
                  messages[2 * i] = Message("assistant", FALLBACK)

C19_Witness ==
    /\ pc = "append"
    /\ StreamRaised
    /\ received = << << "a" >> >>
    /\ response = << << "b" >> >>
    /\ Len(Calls) = 2
    /\ full_response = FALLBACK

====
